---- MODULE Spec2Model ----
(***************************************************************************)
(* Model of jornet:                                                        *)
(*   - bevy-jornet/src/leaderboards.rs: the Leaderboard resource, its      *)
(*     detached background tasks, the two systems that merge task results  *)
(*     into the resource and publish events, and the score HMAC;          *)
(*   - jornet-server/src/domains/admins.rs: biscuit issuance and the       *)
(*     bearer validator.                                                   *)
(***************************************************************************)
EXTENDS Integers, Sequences, FiniteSets, TLC

\* ------------------------------------------------------------------ bounds

\* Background tasks spawned in one run of the client.
MaxTasks == 2

\* Score submissions built in one run of the signing specification.
MaxSigned == 2

\* Biscuits issued in one run of the server specification.
MaxTokens == 1

\* Clock ticks per second: Utc::now() is finer than the second.
Resolution == 2

\* Requests to auth/test and oauth/callback in one run of the server.
MaxHandlers == 2

\* ------------------------------------------------------------ Option<T>

\* Option<T> is a sequence of length at most one.
None == <<>>
Some(x) == <<x>>
IsSome(o) == Len(o) = 1
Unwrap(o) == o[1]

\* ------------------------------------------------------- client: values

\* struct Player {id, key, name}
Player(i, k, n) == [id |-> i, key |-> k, name |-> n]
Players == {Player(1, 11, "ann"), Player(2, 12, "bob")}

\* struct Score {score, player, meta, timestamp}
Score(s, p) == [score |-> s, player |-> p, meta |-> None, timestamp |-> "ts"]

\* What GET /api/v1/scores/{id} may answer with: nothing stored yet, five
\* scores out of order with a tie, eleven scores in ascending order.
Batch5 ==
    << Score(5, "a"), Score(9, "b"), Score(9, "c"), Score(1, "d"), Score(7, "e") >>
Batch11 == [i \in 1..11 |-> Score(i, "p")]
Batches == {<<>>, Batch5, Batch11}

\* The three RwLocks of the resource and who holds the write side.
Locks == {"updating", "results", "new_player"}
NoHolder == 0
MainThread == -1

VARIABLES
    leaderboard,    \* Leaderboard.leaderboard: Vec<Score>
    updating,       \* Leaderboard.updating: Arc<RwLock<Vec<Score>>>
    results,        \* Leaderboard.results: Arc<RwLock<Vec<LeaderboardResult>>>
    new_player,     \* Leaderboard.new_player: Arc<RwLock<Option<Player>>>
    player,         \* Leaderboard.player: Option<Player>
    lock,           \* write holder of each RwLock
    tasks,          \* the detached tasks of the IoTaskPool, in spawn order
    main,           \* position of the thread that runs the systems
    events,         \* what the three EventWriters were sent, in order
    ret,            \* what the last call on the main thread returned
    unmerged,       \* history: a fetched batch was stored and not drained yet
    signed,         \* the score submissions built by ScoreInput::new, in order
    clock,          \* the server's wall clock, in ticks of 1/Resolution second
    issued,         \* the biscuits create_biscuit built, each with its clock reading
    last,           \* the request the validator saw last at this clock reading, with its outcome
    admins,         \* table admins: the ids of its rows
    admins_github,  \* table admins_github: its rows (id, login, admin_id)
    handlers        \* the requests to auth/test and oauth/callback, in order of arrival

clientVars ==
    << leaderboard, updating, results, new_player, player, lock, tasks, main,
       events, ret, unmerged >>

tokenVars == << clock, issued, last >>

dbVars == << admins, admins_github, handlers >>

vars == << clientVars, signed, tokenVars, dbVars >>

\* ---------------------------------------------------------- client: Init

\* Leaderboard::with_host_and_leaderboard
ClientInit ==
    /\ leaderboard = <<>>
    /\ updating = <<>>
    /\ results = <<>>
    /\ new_player = None
    /\ player = None
    /\ lock = [l \in Locks |-> NoHolder]
    /\ tasks = <<>>
    /\ main = "idle"
    /\ events = [create |-> <<>>, refresh |-> <<>>, score |-> <<>>]
    /\ ret = "unit"
    /\ unmerged = FALSE

\* A task as spawned: it awaits its one HTTP round trip.
NewTask(kind) ==
    [kind |-> kind, pc |-> "await", ok |-> FALSE, player |-> None, scores |-> <<>>]

\* thread_pool.spawn(..).detach()
Spawn(kind) == tasks' = Append(tasks, NewTask(kind))

\* LeaderboardResult pushed by task i; id is the pushing task.
Result(kind, ok, i) == [kind |-> kind, ok |-> ok, id |-> i]

\* --------------------------------------------------- client: the calls

\* Leaderboard::create_player
CreatePlayer ==
    /\ main = "idle"
    /\ Len(tasks) < MaxTasks
    /\ Spawn("create")
    /\ ret' = "unit"
    /\ UNCHANGED << leaderboard, updating, results, new_player, player, lock,
                    main, events, unmerged >>

\* Leaderboard::as_player
AsPlayer ==
    /\ main = "idle"
    /\ \E p \in Players : player' = Some(p)
    /\ ret' = "unit"
    /\ UNCHANGED << leaderboard, updating, results, new_player, lock, tasks,
                    main, events, unmerged >>

\* inner_send_score_with_meta without the `if let Some(player)`.
InnerSendScoreWithMeta_Unchecked ==
    /\ main = "idle"
    /\ Len(tasks) < MaxTasks
    /\ Spawn("score")
    /\ ret' = "Some"
    /\ UNCHANGED << leaderboard, updating, results, new_player, player, lock,
                    main, events, unmerged >>

\* Leaderboard::inner_send_score_with_meta, behind send_score and
\* send_score_with_meta: the task is spawned only with a player set.
InnerSendScoreWithMeta ==
    /\ main = "idle"
    /\ IF IsSome(player)
         THEN /\ Len(tasks) < MaxTasks
              /\ Spawn("score")
              /\ ret' = "Some"
         ELSE /\ tasks' = tasks
              /\ ret' = "None"
    /\ UNCHANGED << leaderboard, updating, results, new_player, player, lock,
                    main, events, unmerged >>

\* Leaderboard::refresh_leaderboard
RefreshLeaderboard ==
    /\ main = "idle"
    /\ Len(tasks) < MaxTasks
    /\ Spawn("refresh")
    /\ ret' = "unit"
    /\ UNCHANGED << leaderboard, updating, results, new_player, player, lock,
                    main, events, unmerged >>

\* Leaderboard::get_leaderboard
GetLeaderboard == leaderboard

\* Leaderboard::get_player
GetPlayer == player

\* --------------------------------------------------- client: the tasks

SetTask(i, t) == tasks' = [tasks EXCEPT ![i] = t]

\* lock.write(): waits until nobody holds the lock.
WriteLock(l, who) ==
    /\ lock[l] = NoHolder
    /\ lock' = [lock EXCEPT ![l] = who]

\* A guard that outlives its statement.
Unlock_Kept(l) == lock' = lock

\* The guard of a write() dropped at the end of its statement.
Unlock(l) == lock' = [lock EXCEPT ![l] = NoHolder]

\* (*results).write().unwrap().push(r), the part up to the lock.
TaskLockResults(i) ==
    /\ tasks[i].pc = "push"
    /\ WriteLock("results", i)
    /\ SetTask(i, [tasks[i] EXCEPT !.pc = "pushing"])
    /\ UNCHANGED << leaderboard, updating, results, new_player, player, main,
                    events, ret, unmerged >>

\* (*results).write().unwrap().push(r), the push and the drop of the guard;
\* `next` is where the task goes on.
TaskPush(i, next) ==
    /\ tasks[i].pc = "pushing"
    /\ results' = Append(results, Result(tasks[i].kind, tasks[i].ok, i))
    /\ Unlock("results")
    /\ SetTask(i, [tasks[i] EXCEPT !.pc = next])
    /\ UNCHANGED << leaderboard, updating, new_player, player, main, events,
                    ret, unmerged >>

\* A task resumes from its .await when the answer is there and goes up to
\* the first write() of the branch it takes, which it waits for.

\* The else branch of the create_player task: only the Failure event.
CreatePlayerNone(i) ==
    /\ WriteLock("results", i)
    /\ SetTask(i, [tasks[i] EXCEPT !.pc = "pushing", !.ok = FALSE])

\* The body of the task create_player spawns.
CreatePlayerTask(i) ==
    /\ tasks[i].kind = "create"
    /\ \/ \* http::post answers Some(player) or None
          /\ tasks[i].pc = "await"
          /\ \/ /\ WriteLock("results", i)
                /\ \E p \in Players :
                      SetTask(i, [tasks[i] EXCEPT !.pc = "pushing", !.ok = TRUE,
                                                  !.player = Some(p)])
             \/ CreatePlayerNone(i)
          /\ UNCHANGED << leaderboard, updating, results, new_player, player,
                          main, events, ret, unmerged >>
       \/ \* the event is pushed before the player is stored
          TaskPush(i, IF tasks[i].ok THEN "store" ELSE "done")
       \/ \* *complete_player.write().unwrap() = Some(player)
          /\ tasks[i].pc = "store"
          /\ WriteLock("new_player", i)
          /\ SetTask(i, [tasks[i] EXCEPT !.pc = "storing"])
          /\ UNCHANGED << leaderboard, updating, results, new_player, player,
                          main, events, ret, unmerged >>
       \/ \* the player is moved into the slot
          /\ tasks[i].pc = "storing"
          /\ new_player' = tasks[i].player
          /\ Unlock("new_player")
          /\ SetTask(i, [tasks[i] EXCEPT !.pc = "done", !.player = None])
          /\ UNCHANGED << leaderboard, updating, results, player, main, events,
                          ret, unmerged >>

\* A score task that, answered Some(()), also leaves the score it sent in
\* the refresh slot.
SendScoreTask_Echoes(i) ==
    /\ tasks[i].kind = "score"
    /\ \/ /\ tasks[i].pc = "await"
          /\ WriteLock("results", i)
          /\ \E ok \in BOOLEAN :
                SetTask(i, [tasks[i] EXCEPT !.pc = "pushing", !.ok = ok])
          /\ UNCHANGED << leaderboard, updating, results, new_player, player,
                          main, events, ret, unmerged >>
       \/ /\ tasks[i].pc = "pushing"
          /\ results' = Append(results, Result("score", tasks[i].ok, i))
          /\ updating' = IF tasks[i].ok THEN << Score(3, "me") >> ELSE updating
          /\ Unlock("results")
          /\ SetTask(i, [tasks[i] EXCEPT !.pc = "done"])
          /\ UNCHANGED << leaderboard, new_player, player, main, events, ret,
                          unmerged >>

\* The body of the task inner_send_score_with_meta spawns.
SendScoreTask(i) ==
    /\ tasks[i].kind = "score"
    /\ \/ \* http::post answers Some(()) or None
          /\ tasks[i].pc = "await"
          /\ WriteLock("results", i)
          /\ \E ok \in BOOLEAN :
                SetTask(i, [tasks[i] EXCEPT !.pc = "pushing", !.ok = ok])
          /\ UNCHANGED << leaderboard, updating, results, new_player, player,
                          main, events, ret, unmerged >>
       \/ TaskPush(i, "done")

\* A refresh task that, told None, goes on to store its (empty) scores.
RefreshLeaderboardNone_Stores(i) ==
    /\ WriteLock("updating", i)
    /\ SetTask(i, [tasks[i] EXCEPT !.pc = "storing", !.ok = FALSE])

\* The else branch of the refresh_leaderboard task: only the Failure event.
RefreshLeaderboardNone(i) ==
    /\ WriteLock("results", i)
    /\ SetTask(i, [tasks[i] EXCEPT !.pc = "pushing", !.ok = FALSE])

\* The body of the task refresh_leaderboard spawns.
RefreshLeaderboardTask(i) ==
    /\ tasks[i].kind = "refresh"
    /\ \/ \* http::get answers Some(scores) or None
          /\ tasks[i].pc = "await"
          /\ \/ \* *leaderboard_to_update.write().unwrap()
                /\ WriteLock("updating", i)
                /\ \E b \in Batches :
                      SetTask(i, [tasks[i] EXCEPT !.pc = "storing", !.ok = TRUE,
                                                  !.scores = b])
             \/ RefreshLeaderboardNone(i)
          /\ UNCHANGED << leaderboard, updating, results, new_player, player,
                          main, events, ret, unmerged >>
       \/ \* the scores are moved into the slot
          /\ tasks[i].pc = "storing"
          /\ updating' = tasks[i].scores
          /\ unmerged' = TRUE
          /\ Unlock("updating")
          /\ SetTask(i, [tasks[i] EXCEPT !.pc = "push", !.scores = <<>>])
          /\ UNCHANGED << leaderboard, results, new_player, player, main,
                          events, ret >>
       \/ TaskLockResults(i)
       \/ TaskPush(i, "done")

\* ------------------------------------------------- client: the systems

\* lock.try_read(): Err while a writer holds the lock.
TryRead(l) == lock[l] = NoHolder

\* A merge that keeps a player already set.
TakeNewPlayer_KeepsPlayer ==
    /\ player' = IF IsSome(player) THEN player ELSE new_player
    /\ new_player' = None

\* let new_player = leaderboard.new_player.write().unwrap().take();
\* leaderboard.player = new_player;
TakeNewPlayer ==
    /\ player' = new_player
    /\ new_player' = None

\* A merge that adds the drained batch to the view it finds.
DrainUpdating_Extends ==
    /\ leaderboard' = leaderboard \o updating
    /\ updating' = <<>>

\* let updated = ...drain(..).collect(); leaderboard.leaderboard = updated;
DrainUpdating ==
    /\ leaderboard' = updating
    /\ updating' = <<>>

\* system done_refreshing_leaderboard
DoneRefreshingLeaderboard ==
    \/ \* updating.try_read().map(|v| v.is_empty()).unwrap_or(true)
       /\ main = "idle"
       /\ main' = IF TryRead("updating") /\ updating # <<>>
                    THEN "lock_updating" ELSE "try_new_player"
       /\ unmerged' = IF TryRead("updating") /\ updating = <<>>
                        THEN FALSE ELSE unmerged
       /\ ret' = "unit"
       /\ UNCHANGED << leaderboard, updating, results, new_player, player,
                       lock, tasks, events >>
    \/ \* updating.write().unwrap()
       /\ main = "lock_updating"
       /\ WriteLock("updating", MainThread)
       /\ main' = "drain_updating"
       /\ UNCHANGED << leaderboard, updating, results, new_player, player,
                       tasks, events, ret, unmerged >>
    \/ /\ main = "drain_updating"
       /\ DrainUpdating
       /\ unmerged' = FALSE
       /\ Unlock("updating")
       /\ main' = "try_new_player"
       /\ UNCHANGED << results, new_player, player, tasks, events, ret >>
    \/ \* new_player.try_read().map(|v| v.is_some()).unwrap_or(false)
       /\ main = "try_new_player"
       /\ main' = IF TryRead("new_player") /\ IsSome(new_player)
                    THEN "lock_new_player" ELSE "idle"
       /\ UNCHANGED << leaderboard, updating, results, new_player, player,
                       lock, tasks, events, ret, unmerged >>
    \/ \* new_player.write().unwrap()
       /\ main = "lock_new_player"
       /\ WriteLock("new_player", MainThread)
       /\ main' = "take_new_player"
       /\ UNCHANGED << leaderboard, updating, results, new_player, player,
                       tasks, events, ret, unmerged >>
    \/ /\ main = "take_new_player"
       /\ TakeNewPlayer
       /\ Unlock("new_player")
       /\ main' = "idle"
       /\ UNCHANGED << leaderboard, updating, results, tasks, events, ret,
                       unmerged >>

\* A drain loop that sends the first entry and drops the others.
SendAll_FirstOnly(ev, rs) ==
    IF rs = <<>> THEN ev
    ELSE [ev EXCEPT ![Head(rs).kind] = Append(@, Head(rs))]

\* A drain loop that takes the queue from its end.
RECURSIVE SendAll_Backwards(_, _)
SendAll_Backwards(ev, rs) ==
    IF rs = <<>> THEN ev
    ELSE LET r == rs[Len(rs)]
         IN SendAll_Backwards([ev EXCEPT ![r.kind] = Append(@, r)],
                              SubSeq(rs, 1, Len(rs) - 1))

\* for r in results.drain(..): each entry goes to the writer of its kind.
RECURSIVE SendAll(_, _)
SendAll(ev, rs) ==
    IF rs = <<>> THEN ev
    ELSE LET r == Head(rs)
             f == CASE r.kind = "create" -> "create"
                    [] r.kind = "refresh" -> "refresh"
                    [] r.kind = "score" -> "score"
         IN SendAll([ev EXCEPT ![f] = Append(@, r)], Tail(rs))

\* system send_events
SendEvents ==
    \/ \* results.try_read().map(|v| v.is_empty()).unwrap_or(true)
       /\ main = "idle"
       /\ TryRead("results") /\ results # <<>>
       /\ main' = "lock_results"
       /\ ret' = "unit"
       /\ UNCHANGED << leaderboard, updating, results, new_player, player,
                       lock, tasks, events, unmerged >>
    \/ \* let mut results = leaderboard.results.write().unwrap()
       /\ main = "lock_results"
       /\ WriteLock("results", MainThread)
       /\ main' = "drain_results"
       /\ UNCHANGED << leaderboard, updating, results, new_player, player,
                       tasks, events, ret, unmerged >>
    \/ \* the drain loop, then the guard goes out of scope
       /\ main = "drain_results"
       /\ events' = SendAll(events, results)
       /\ results' = <<>>
       /\ Unlock("results")
       /\ main' = "idle"
       /\ UNCHANGED << leaderboard, updating, new_player, player, tasks, ret,
                       unmerged >>

\* ------------------------------------------------------ client: the spec

TokenInit ==
    /\ clock = 0
    /\ issued = {}
    /\ last = None

\* An empty database and no request yet.
DbInit ==
    /\ admins = {}
    /\ admins_github = {}
    /\ handlers = <<>>

Init == ClientInit /\ signed = <<>> /\ TokenInit /\ DbInit

Next ==
    \/ CreatePlayer
    \/ AsPlayer
    \/ InnerSendScoreWithMeta
    \/ RefreshLeaderboard
    \/ \E i \in 1..Len(tasks) : CreatePlayerTask(i)
    \/ \E i \in 1..Len(tasks) : SendScoreTask(i)
    \/ \E i \in 1..Len(tasks) : RefreshLeaderboardTask(i)
    \/ DoneRefreshingLeaderboard
    \/ SendEvents

ClientNext == Next /\ UNCHANGED << signed, tokenVars, dbVars >>

Spec == Init /\ [][ClientNext]_vars

\* Fairness: a spawned task runs to its end, a system that was entered runs
\* to its end, and the schedule enters each system in every frame.
Fairness ==
    /\ \A i \in 1..MaxTasks :
          WF_clientVars(i <= Len(tasks) /\ (CreatePlayerTask(i) \/ SendScoreTask(i)
                                        \/ RefreshLeaderboardTask(i)))
    /\ WF_clientVars(main # "idle" /\ DoneRefreshingLeaderboard)
    /\ WF_clientVars(main # "idle" /\ SendEvents)
    /\ SF_clientVars(main = "idle" /\ DoneRefreshingLeaderboard)
    /\ SF_clientVars(main = "idle" /\ SendEvents)

FairSpec == Spec /\ Fairness

\* ------------------------------------------------------- score signing

\* Bytes are 0..255; a Uuid is its 16 bytes, a string its UTF-8 bytes.
\* {integer}::to_le_bytes for a value of `width` bytes
RECURSIVE ToLeBytes(_, _)
ToLeBytes(x, width) ==
    IF width = 0 THEN <<>> ELSE << x % 256 >> \o ToLeBytes(x \div 256, width - 1)

\* {integer}::to_be_bytes
RECURSIVE ToBeBytes(_, _)
ToBeBytes(x, width) ==
    IF width = 0 THEN <<>> ELSE ToBeBytes(x \div 256, width - 1) \o << x % 256 >>

\* The Uuid whose 128-bit value is n; Uuid::as_bytes is big-endian.
UuidOf(n) == ToBeBytes(n, 16)

\* hex::encode
HexDigits ==
    << "0", "1", "2", "3", "4", "5", "6", "7", "8", "9", "a", "b", "c", "d", "e", "f" >>

RECURSIVE HexEncode(_)
HexEncode(bytes) ==
    IF bytes = <<>> THEN <<>>
    ELSE << HexDigits[(Head(bytes) \div 16) + 1], HexDigits[(Head(bytes) % 16) + 1] >>
            \o HexEncode(Tail(bytes))

\* Hmac<Sha256>: new_from_slice(key), update.., finalize. The MAC is taken
\* as collision free: its digest is written as the key followed by all the
\* bytes it was updated with.
HmacFinalize(key, message) == key \o message

\* if let Some(meta) = meta.as_ref() { mac.update(meta.as_bytes()) }
MetaUpdate(meta) == IF IsSome(meta) THEN Unwrap(meta) ELSE <<>>

\* The mac.update calls of ScoreInput::new, in order; score is the f32 as
\* its 32 bits.
MacUpdates(timestamp, leaderboard_key, p, score, meta) ==
    ToLeBytes(timestamp, 8) \o leaderboard_key \o p.id \o ToLeBytes(score, 4)
        \o MetaUpdate(meta)

\* ScoreInput::new, with the clock reading it takes
ScoreInputNew(leaderboard_key, score, p, meta, timestamp) ==
    [ score |-> score,
      player |-> p.id,
      meta |-> meta,
      timestamp |-> timestamp,
      k |-> HexEncode(HmacFinalize(p.key,
                MacUpdates(timestamp, leaderboard_key, p, score, meta))) ]

\* Inputs of the signing specification. Scores are f32 bit patterns (0.0,
\* 1.0); metas are absent, empty and "a".
SignPlayers == {Player(UuidOf(1), UuidOf(11), "ann"), Player(UuidOf(2), UuidOf(12), "bob")}
SignLeaderboardKeys == {UuidOf(7), UuidOf(8)}
SignScores == {0, 1065353216}
SignMetas == {None, Some(<<>>), Some(<<97>>)}
SignTimestamps == {1, 256}

\* One submission built: what went in and the ScoreInput that came out.
Sign ==
    /\ Len(signed) < MaxSigned
    /\ \E p \in SignPlayers, lk \in SignLeaderboardKeys, sc \in SignScores,
          m \in SignMetas, ts \in SignTimestamps :
          signed' = Append(signed,
                       [ secret |-> p.key, leaderboard_key |-> lk,
                         input |-> ScoreInputNew(lk, sc, p, m, ts) ])
    /\ UNCHANGED << clientVars, tokenVars, dbVars >>

SignNext == Sign

SignSpec == Init /\ [][SignNext]_vars

\* C4 (as claimed): of two submissions that agree on the secret key, the
\* leaderboard key, the player, the score and the timestamp, one without
\* meta and one with the empty meta, the tags differ.
C4_OmittedAndEmptyMetaDiffer ==
    \A a \in 1..Len(signed), b \in 1..Len(signed) :
        ( /\ signed[a].secret = signed[b].secret
          /\ signed[a].leaderboard_key = signed[b].leaderboard_key
          /\ signed[a].input.player = signed[b].input.player
          /\ signed[a].input.score = signed[b].input.score
          /\ signed[a].input.timestamp = signed[b].input.timestamp
          /\ signed[a].input.meta = None
          /\ signed[b].input.meta = Some(<<>>) )
        => signed[a].input.k # signed[b].input.k

\* ------------------------------------------------------ admin tokens

\* Result<T, E>
Ok(x) == [ok |-> TRUE, val |-> <<x>>, err |-> <<>>]
Err(e) == [ok |-> FALSE, val |-> <<>>, err |-> <<e>>]

\* Seconds of token life, Duration::seconds(600).
TTL == 600

\* Uuid::to_string: hyphenated lower-case hex.
UuidToString(u) ==
    LET h == HexEncode(u)
    IN SubSeq(h, 1, 8) \o <<"-">> \o SubSeq(h, 9, 12) \o <<"-">> \o SubSeq(h, 13, 16)
         \o <<"-">> \o SubSeq(h, 17, 20) \o <<"-">> \o SubSeq(h, 21, 32)

IsHex(c) == \E d \in 1..16 : HexDigits[d] = c
HexValue(c) == (CHOOSE d \in 1..16 : HexDigits[d] = c) - 1

RECURSIVE HexDecode(_)
HexDecode(h) ==
    IF h = <<>> THEN <<>>
    ELSE << 16 * HexValue(h[1]) + HexValue(h[2]) >> \o HexDecode(SubSeq(h, 3, Len(h)))

\* Uuid::parse_str, for the hyphenated form and for what is no uuid
ParseStr(str) ==
    LET hyphens == {9, 14, 19, 24}
    IN IF /\ Len(str) = 36
          /\ \A n \in 1..36 : IF n \in hyphens THEN str[n] = "-" ELSE IsHex(str[n])
         THEN Ok(HexDecode(SelectSeq(str, LAMBDA c : c # "-")))
         ELSE Err("uuid")

\* A subject fact under a name the validator does not query.
AsBiscuitFact_Admin(account) ==
    [name |-> "admin", terms |-> << UuidToString(account.id) >>]

\* AdminAccount::as_biscuit_fact
AsBiscuitFact(account) ==
    [name |-> "user", terms |-> << UuidToString(account.id) >>]

\* DateTime::to_rfc3339 of a clock reading: the second and its fraction.
ToRfc3339(ticks) == [second |-> ticks \div Resolution, fraction |-> ticks % Resolution]

\* A date of the biscuit datalog is whole seconds since the epoch: what
\* the parser keeps of an RFC 3339 date.
DatalogDate(rfc3339) == rfc3339.second

\* authorizer.set_time(): the fact time(now), in whole seconds
SetTime(now) == [name |-> "time", terms |-> << now \div Resolution >>]

\* An expiry check that lets the expiry second itself pass.
AuthorityCheck_Inclusive(time, date) == time <= date

\* check if time($time), $time < {date}
AuthorityCheck(time, date) == time < date

\* AdminAccount::create_biscuit, with the clock reading it takes: the
\* authority block (its facts, its checks) and no further block.
CreateBiscuit(account, root, now) ==
    [ root |-> root,
      facts |-> << AsBiscuitFact(account) >>,
      checks |-> << DatalogDate(ToRfc3339(now + TTL * Resolution)) >>,
      blocks |-> <<>> ]

\* A block of facts and checks (each check an expiry date).
Block(facts, checks) == [facts |-> facts, checks |-> checks]

\* What any holder of a biscuit can do before presenting it: append a
\* block. The signature chain of the result still verifies under the root.
AppendBlock(biscuit, block) == [biscuit EXCEPT !.blocks = Append(@, block)]

\* The two key pairs: the server's and somebody else's.
KeyPairs == {"root", "other"}
Public(keypair) == << "public", keypair >>

\* Biscuit::to_base64, and a bearer string that lost its end.
ToBase64(biscuit) == [biscuit |-> biscuit, whole |-> TRUE]
Truncated(token) == [token EXCEPT !.whole = FALSE]

\* Biscuit::from_base64(token, |_| root.public())
FromBase64(token, public) ==
    IF ~token.whole THEN Err("format")
    ELSE IF Public(token.biscuit.root) # public THEN Err("signature")
    ELSE Ok(token.biscuit)

\* The facts of the authorizer's world are a hash set: a query answers
\* with the matching facts in an order the run decides.
QueryOrders == {"forward", "backward"}

RECURSIVE Reverse(_)
Reverse(q) == IF q = <<>> THEN <<>> ELSE Reverse(Tail(q)) \o << Head(q) >>

\* authorizer.query("data($id) <- user($id)")
Query(facts, order) ==
    LET res == SelectSeq(facts, LAMBDA f : f.name = "user")
    IN IF order = "forward" THEN res ELSE Reverse(res)

\* AdminAccount::from_authorizer: res.get(0) of the query, parsed
FromAuthorizer(facts, order) ==
    LET res == Query(facts, order)
    IN IF res = <<>> THEN Err("unit")
       ELSE LET id == ParseStr(res[1].terms[1])
            IN IF id.ok THEN Ok([id |-> Unwrap(id.val)]) ELSE Err("unit")

\* The facts of the first n blocks appended to a biscuit.
RECURSIVE BlockFacts(_, _)
BlockFacts(biscuit, n) ==
    IF n = 0 THEN <<>> ELSE BlockFacts(biscuit, n - 1) \o biscuit.blocks[n].facts

\* The world authorizer.authorize() has built when it comes to the checks
\* of block n (0: the authority block): the authority facts, the time fact
\* and the facts of the blocks up to n.
World(biscuit, now, n) == biscuit.facts \o << SetTime(now) >> \o BlockFacts(biscuit, n)

\* check if time($time), $time < date, against a world
Holds(date, world) ==
    LET times == SelectSeq(world, LAMBDA f : f.name = "time")
    IN \E n \in 1..Len(times) : AuthorityCheck(times[n].terms[1], date)

\* authorize: set_time, allow, authorize (the authority checks, the allow
\* policy, then block after block its facts and its checks),
\* from_authorizer on the world that is left, every error mapped to ()
Authorize(biscuit, now, order) ==
    IF /\ \A c \in 1..Len(biscuit.checks) :
             Holds(biscuit.checks[c], World(biscuit, now, 0))
       /\ \A n \in 1..Len(biscuit.blocks) :
             \A c \in 1..Len(biscuit.blocks[n].checks) :
                 Holds(biscuit.blocks[n].checks[c], World(biscuit, now, n))
      THEN FromAuthorizer(World(biscuit, now, Len(biscuit.blocks)), order)
      ELSE Err("unit")

\* AuthenticationError::from(Config::default())
AuthenticationError == "AuthenticationError(Config::default())"

\* A validator that hands on the error it was given.
Validator_TellsWhy(token, root, now, order) ==
    LET biscuit == FromBase64(token, Public(root))
    IN IF ~biscuit.ok THEN [reply |-> Err(Unwrap(biscuit.err)), extensions |-> None]
       ELSE LET user == Authorize(Unwrap(biscuit.val), now, order)
            IN IF ~user.ok
                 THEN [reply |-> Err("authorize"), extensions |-> None]
                 ELSE [reply |-> Ok("req"), extensions |-> user.val]

\* validator: the reply and what was inserted into the request extensions
Validator(token, root, now, order) ==
    LET biscuit == FromBase64(token, Public(root))
    IN IF ~biscuit.ok THEN [reply |-> Err(AuthenticationError), extensions |-> None]
       ELSE LET user == Authorize(Unwrap(biscuit.val), now, order)
            IN IF ~user.ok
                 THEN [reply |-> Err(AuthenticationError), extensions |-> None]
                 ELSE [reply |-> Ok("req"), extensions |-> user.val]

\* The accounts tokens are asked for.
Accounts == {[id |-> UuidOf(1)], [id |-> UuidOf(2)]}

\* The clock readings of a run: the first ticks, and the ticks around the
\* end of the life of a token issued then.
Instants ==
    (0..Resolution)
        \cup ((TTL * Resolution - Resolution)..(TTL * Resolution + 2 * Resolution))

\* Utc::now(), SystemTime::now()
Now == clock

\* Time passes; the request served before is over.
Advance ==
    /\ \E now \in Instants : now > clock /\ clock' = now
    /\ last' = None
    /\ UNCHANGED issued
    /\ UNCHANGED << clientVars, signed, dbVars >>

\* The blocks a holder appends to the token of account a: a check that
\* ends the token's life at second 1, or a user fact of another account.
Attenuations(a) ==
    {Block(<<>>, << 1 >>)}
        \cup {Block(<< AsBiscuitFact(b) >>, <<>>) : b \in Accounts \ {a}}

\* What reaches the validator as a bearer token: an issued token, an issued
\* token cut short, an issued token with a block appended, a biscuit of
\* another key pair, and biscuits under the root key whose user fact is
\* missing or holds no uuid.
NotAUuid == << "n", "o" >>
BearerTokens ==
    {ToBase64(i.biscuit) : i \in issued}
    \cup {Truncated(ToBase64(i.biscuit)) : i \in issued}
    \cup UNION {{ToBase64(AppendBlock(i.biscuit, b)) : b \in Attenuations(i.account)} :
                    i \in issued}
    \cup {ToBase64(CreateBiscuit(a, "other", 0)) : a \in Accounts}
    \cup {ToBase64([root |-> "root", facts |-> <<>>, checks |-> <<>>,
                    blocks |-> <<>>]),
          ToBase64([root |-> "root",
                    facts |-> << [name |-> "user", terms |-> << NotAUuid >>] >>,
                    checks |-> <<>>, blocks |-> <<>>])}

\* The checks of the first n blocks appended to a biscuit.
RECURSIVE BlockChecks(_, _)
BlockChecks(biscuit, n) ==
    IF n = 0 THEN <<>> ELSE BlockChecks(biscuit, n - 1) \o biscuit.blocks[n].checks

\* Why the validator's steps fail on a token: the error before any map_err.
FailureCause(token, root, now) ==
    LET biscuit == FromBase64(token, Public(root))
    IN IF ~biscuit.ok THEN Unwrap(biscuit.err)
       ELSE LET b == Unwrap(biscuit.val)
                users == SelectSeq(b.facts, LAMBDA f : f.name = "user")
                dates == b.checks \o BlockChecks(b, Len(b.blocks))
            IN IF \E c \in 1..Len(dates) : ~(now \div Resolution < dates[c])
                 THEN "check"
               ELSE IF users = <<>> THEN "no fact"
               ELSE IF ~ParseStr(users[1].terms[1]).ok THEN "no uuid"
               ELSE "none"

\* A token is issued for an account (new_account, oauth_callback).
Issue ==
    /\ Cardinality(issued) < MaxTokens
    /\ \E a \in Accounts :
          issued' = issued \cup {[biscuit |-> CreateBiscuit(a, "root", Now),
                                  at |-> Now, account |-> a]}
    /\ UNCHANGED << clock, last >>
    /\ UNCHANGED << clientVars, signed, dbVars >>

\* A request with a bearer token comes to api/admin.
Validate ==
    /\ \E token \in BearerTokens, order \in QueryOrders :
          LET out == Validator(token, "root", Now, order)
          IN last' = Some([token |-> token, at |-> Now, reply |-> out.reply,
                           extensions |-> out.extensions])
    /\ UNCHANGED << clock, issued >>
    /\ UNCHANGED << clientVars, signed, dbVars >>

TokenNext == Advance \/ Issue \/ Validate

TokenSpec == Init /\ [][TokenNext]_vars

\* The issue records of the token the last request carried.
IssuesOfLast == {i \in issued : IsSome(last) /\ Unwrap(last).token = ToBase64(i.biscuit)}

\* C5 (as claimed): a token issued at t0 verifies at every clock reading
\* t < t0 + 600 s and fails at every t > t0 + 600 s.
C5_ExpiryOnClockReadings ==
    \A i \in IssuesOfLast :
        /\ Unwrap(last).at < i.at + TTL * Resolution => Unwrap(last).reply.ok
        /\ Unwrap(last).at > i.at + TTL * Resolution => ~Unwrap(last).reply.ok

\* C5 (amended): a token issued in second s0 verifies at a clock reading in
\* second s exactly when s < s0 + 600, the comparison being strict and on
\* whole seconds.
C5_ExpiryOnWholeSeconds ==
    \A i \in IssuesOfLast :
        Unwrap(last).reply.ok <=>
            (Unwrap(last).at \div Resolution) < (i.at \div Resolution) + TTL

\* C5 witness: a token verified in the last second of its life.
C5_Witness ==
    \E i \in IssuesOfLast :
        /\ Unwrap(last).reply.ok
        /\ Unwrap(last).at \div Resolution = (i.at \div Resolution) + TTL - 1

\* Why the last request failed, "none" if nothing made it fail.
LastCause == FailureCause(Unwrap(last).token, "root", Unwrap(last).at)

\* C6: whatever made the verification fail (the string, the signature, a
\* check, the user fact), the reply is the one AuthenticationError and the
\* request got no subject; a request nothing makes fail gets through.
C6_UniformFailure ==
    IsSome(last) =>
        IF LastCause = "none"
          THEN Unwrap(last).reply.ok /\ IsSome(Unwrap(last).extensions)
          ELSE /\ Unwrap(last).reply = Err(AuthenticationError)
               /\ Unwrap(last).extensions = None

\* C6 witness: an issued token was refused for its expiry check.
C6_Witness ==
    /\ IssuesOfLast # {}
    /\ LastCause = "check"
    /\ Unwrap(last).reply = Err(AuthenticationError)

\* ---------------------------------------------------- admin accounts

\* What a query may come back with: its rows, or an sqlx::Error other than
\* RowNotFound (the pool, the connection, the statement).
QueryOutcomes == {"ok", "error"}

\* The GitHub users oauth/callback is called for.
GithubUsers == {[login |-> "octo", id |-> 7]}

\* The rows of admins_github that link an account.
LinksOf(account) == {row \in admins_github : row.admin_id = account.id}

\* AdminAccount::exist: fetch_one(..).is_ok()
AccountExist(account, out) == out = "ok" /\ account.id \in admins

\* AdminAccount::has_github: Ok(record) => Some(GithubUser), _ => None
AccountHasGithub(account, out) ==
    IF out = "ok" /\ LinksOf(account) # {}
      THEN LET record == CHOOSE row \in LinksOf(account) : TRUE
           IN Some([login |-> record.login, id |-> record.id])
      ELSE None

\* AdminAccount::create: INSERT INTO admins (id), the result unused
AccountCreate(account, out) ==
    admins' = IF out = "ok" THEN admins \cup {account.id} ELSE admins

\* GithubUser::exist
GithubUserExist(user, out) ==
    out = "ok" /\ \E row \in admins_github : row.id = user.id /\ row.login = user.login

\* GithubUser::create: INSERT INTO admins_github (id, login, admin_id)
GithubUserCreate(user, account, out) ==
    admins_github' =
        IF out = "ok"
          THEN admins_github
                 \cup {[id |-> user.id, login |-> user.login, admin_id |-> account.id]}
          ELSE admins_github

\* GithubUser::has_admin
GithubUserHasAdmin(user, out) ==
    LET rows == {row \in admins_github : row.id = user.id /\ row.login = user.login}
    IN IF out = "ok" /\ rows # {}
         THEN Some([id |-> (CHOOSE row \in rows : TRUE).admin_id])
         ELSE None

\* HttpResponse::Ok().json(TokenReply {token: biscuit.to_base64().unwrap()})
TokenReply(account) == Ok([token |-> ToBase64(CreateBiscuit(account, "root", Now))])

\* HttpResponse::InternalServerError().finish()
InternalServerError == Err("InternalServerError")

\* A request as it arrives; `reply` is set when the handler returns.
NewHandler(kind, account, user) ==
    [kind |-> kind, pc |-> "exist", account |-> account, user |-> user,
     exist |-> FALSE, created |-> FALSE, reply |-> None]

SetHandler(n, h) == handlers' = [handlers EXCEPT ![n] = h]

\* POST auth/test with a uuid, GET oauth/callback with a code GitHub
\* resolves to a user.
Request ==
    /\ Len(handlers) < MaxHandlers
    /\ \/ \E a \in Accounts :
             handlers' = Append(handlers, NewHandler("new_account", Some(a), None))
       \/ \E u \in GithubUsers :
             handlers' = Append(handlers, NewHandler("oauth_callback", None, Some(u)))
    /\ UNCHANGED << admins, admins_github >>
    /\ UNCHANGED << clientVars, signed, tokenVars >>

\* new_account, from one .await to the next
NewAccount(n) ==
    LET h == handlers[n]
        account == Unwrap(h.account)
    IN /\ h.kind = "new_account"
       /\ \E out \in QueryOutcomes :
             \/ \* account.exist(&connection).await
                /\ h.pc = "exist"
                /\ SetHandler(n, [h EXCEPT !.pc = "has_github",
                                           !.exist = AccountExist(account, out)])
                /\ UNCHANGED << admins, admins_github >>
             \/ \* account.has_github(&connection).await, then the match
                /\ h.pc = "has_github"
                /\ SetHandler(n,
                      IF IsSome(AccountHasGithub(account, out))
                        THEN [h EXCEPT !.pc = "done", !.reply = Some(InternalServerError)]
                      ELSE IF ~h.exist
                        THEN [h EXCEPT !.pc = "create"]
                      ELSE [h EXCEPT !.pc = "done", !.reply = Some(TokenReply(account))])
                /\ UNCHANGED << admins, admins_github >>
             \/ \* account.create(&connection).await, then the token
                /\ h.pc = "create"
                /\ AccountCreate(account, out)
                /\ SetHandler(n, [h EXCEPT !.pc = "done", !.created = (admins' # admins),
                                           !.reply = Some(TokenReply(account))])
                /\ UNCHANGED admins_github
       /\ UNCHANGED << clientVars, signed, tokenVars >>

\* oauth_callback, from one .await to the next, once GitHub has named the
\* user; Uuid::new_v4() is an id no account has.
OauthCallback(n) ==
    LET h == handlers[n]
        user == Unwrap(h.user)
    IN /\ h.kind = "oauth_callback"
       /\ \E out \in QueryOutcomes :
             \/ \* user.exist(&connection).await
                /\ h.pc = "exist"
                /\ IF GithubUserExist(user, out)
                     THEN SetHandler(n, [h EXCEPT !.pc = "has_admin", !.exist = TRUE])
                     ELSE \E a \in Accounts :
                             /\ a.id \notin admins
                             /\ SetHandler(n, [h EXCEPT !.pc = "create",
                                                        !.account = Some(a)])
                /\ UNCHANGED << admins, admins_github >>
             \/ \* user.has_admin(&connection).await.unwrap()
                /\ h.pc = "has_admin"
                /\ LET admin == GithubUserHasAdmin(user, out)
                   IN SetHandler(n,
                         IF IsSome(admin)
                           THEN [h EXCEPT !.pc = "done", !.account = admin,
                                          !.reply = Some(TokenReply(Unwrap(admin)))]
                           ELSE [h EXCEPT !.pc = "done", !.reply = Some(Err("panic"))])
                /\ UNCHANGED << admins, admins_github >>
             \/ \* account.create(&connection).await
                /\ h.pc = "create"
                /\ AccountCreate(Unwrap(h.account), out)
                /\ SetHandler(n, [h EXCEPT !.pc = "link", !.created = (admins' # admins)])
                /\ UNCHANGED admins_github
             \/ \* user.create(&account, &connection).await, then the token
                /\ h.pc = "link"
                /\ GithubUserCreate(user, Unwrap(h.account), out)
                /\ SetHandler(n, [h EXCEPT !.pc = "done",
                                           !.reply = Some(TokenReply(Unwrap(h.account)))])
                /\ UNCHANGED admins
       /\ UNCHANGED << clientVars, signed, tokenVars >>

AccountNext ==
    \/ Request
    \/ \E n \in 1..Len(handlers) : NewAccount(n)
    \/ \E n \in 1..Len(handlers) : OauthCallback(n)

AccountSpec == Init /\ [][AccountNext]_vars

\* The new_account handlers that return in this step.
Returning ==
    {n \in 1..Len(handlers) :
        /\ handlers[n].kind = "new_account"
        /\ handlers[n].pc # "done"
        /\ handlers'[n].pc = "done"}

\* C21 (as claimed): when new_account returns for an account that has a
\* GitHub identity linked, the reply is an error and the handler has
\* created nothing; when it returns for an account that has none, the
\* reply is a token for exactly the submitted id, and the only row the
\* handler may have added is that account's, where there was none.
C21_NoTokenForLinkedAccount ==
    [][ \A n \in Returning :
            LET account == Unwrap(handlers[n].account)
                reply == Unwrap(handlers'[n].reply)
            IN /\ admins_github' = admins_github
               /\ IF LinksOf(account) # {}
                    THEN /\ ~reply.ok
                         /\ ~handlers'[n].created
                         /\ admins' = admins
                    ELSE /\ reply = TokenReply(account)
                         /\ \A order \in QueryOrders :
                               Validator(Unwrap(reply.val).token, "root", Now, order).extensions
                                   = Some(account)
                         /\ admins' \in {admins, admins \cup {account.id}}
                         /\ handlers'[n].created => account.id \notin admins
      ]_vars

\* ------------------------------------------------- client: properties

\* RankingReducer of the specification: stable sort by value descending,
\* then the first 10.
RECURSIVE InsertByScore(_, _)
InsertByScore(x, sorted) ==
    IF sorted = <<>> THEN <<x>>
    ELSE IF Head(sorted).score >= x.score
           THEN <<Head(sorted)>> \o InsertByScore(x, Tail(sorted))
           ELSE <<x>> \o sorted

RECURSIVE StableSortDesc(_)
StableSortDesc(s) ==
    IF s = <<>> THEN <<>>
    ELSE InsertByScore(s[Len(s)], StableSortDesc(SubSeq(s, 1, Len(s) - 1)))

RankingReducer(batch) ==
    LET sorted == StableSortDesc(batch)
    IN SubSeq(sorted, 1, IF Len(sorted) < 10 THEN Len(sorted) ELSE 10)

TasksOfKind(kind) == {i \in 1..Len(tasks) : tasks[i].kind = kind}

\* Every outcome entry produced so far, queued or published.
Outcomes == results \o events.create \o events.refresh \o events.score

OutcomesOf(i) == SelectSeq(Outcomes, LAMBDA r : r.id = i)

\* C1: while no player is set no call returns Some and no score task
\* appears; the call that returns None changes nothing else; a call returns
\* Some only with a player set; and every SendScore outcome, queued or
\* published, is the outcome of a score task.
C1_SendScoreWithoutPlayer ==
    [][ /\ player = None =>
              /\ TasksOfKind("score")' = TasksOfKind("score")
              /\ ret' # "Some"
        /\ (ret' = "None" /\ ret # "None") =>
              /\ player = None
              /\ UNCHANGED << leaderboard, updating, results, new_player, player,
                              lock, tasks, main, events >>
        /\ (ret' = "Some" /\ ret # "Some") => IsSome(player)
        /\ \A n \in 1..Len(Outcomes') :
              Outcomes'[n].kind = "score" => Outcomes'[n].id \in TasksOfKind("score")'
      ]_vars

\* C1 witness: the call was rejected while other work went on and was
\* published.
C1_Witness ==
    /\ ret = "None"
    /\ player = None
    /\ events.refresh # <<>>
    /\ TasksOfKind("score") = {}

\* C2 (as claimed): the merge of a fetched batch leaves the view equal to
\* RankingReducer(batch) and the slot empty.
C2_MergeIsRankingReducer ==
    [][ (main = "drain_updating" /\ main' # main) =>
            /\ GetLeaderboard' = RankingReducer(updating)
            /\ updating' = <<>> ]_vars

\* C3 (as claimed): the view never holds more than 10 entries.
C3_ViewAtMostTen == Len(GetLeaderboard) <= 10

\* A task that was answered None (or an error status).
Failed(i) == tasks[i].pc # "await" /\ ~tasks[i].ok

\* C7: a task that failed changes neither slot, neither the view nor the
\* current player, and produces the Failure entry and nothing else; the
\* view changes only by the merge of a batch a successful refresh stored,
\* the current player only by as_player or the merge of a created player.
C7_FailureKeepsState ==
    [][ /\ \A i \in 1..Len(tasks) :
              /\ (Failed(i) /\ tasks'[i] # tasks[i]) =>
                    /\ UNCHANGED << leaderboard, updating, new_player, player >>
                    /\ \/ results' = results
                       \/ results' = Append(results, Result(tasks[i].kind, FALSE, i))
              /\ (tasks'[i].pc # "await" /\ ~tasks'[i].ok) =>
                    /\ tasks'[i].pc \in {"push", "pushing", "done"}
                    /\ tasks'[i].player = None /\ tasks'[i].scores = <<>>
              /\ (tasks'[i].pc = "done" /\ ~tasks'[i].ok) =>
                    OutcomesOf(i)' = << Result(tasks[i].kind, FALSE, i) >>
        /\ leaderboard' # leaderboard =>
              /\ main = "drain_updating"
              /\ \E j \in TasksOfKind("refresh") :
                    tasks[j].ok /\ tasks[j].pc \in {"push", "pushing", "done"}
        /\ player' # player =>
              \/ main = "idle"
              \/ /\ main = "take_new_player"
                 /\ \E j \in TasksOfKind("create") : tasks[j].ok /\ tasks[j].pc = "done"
      ]_vars

\* C7 witness: a refresh and a create-player failed and were reported
\* while the view and the player set before are still there.
C7_Witness ==
    /\ main = "idle"
    /\ leaderboard # <<>>
    /\ \E i \in TasksOfKind("refresh") :
          /\ tasks[i].pc = "done" /\ ~tasks[i].ok
          /\ \E n \in 1..Len(events.refresh) : events.refresh[n] = Result("refresh", FALSE, i)

\* C8: the merge of the create-player slot makes the stored player the
\* current one whatever the current one was, and empties the slot.
C8_CreatedPlayerReplaces ==
    [][ (main = "take_new_player" /\ main' # main) =>
            /\ IsSome(new_player)
            /\ GetPlayer' = new_player
            /\ new_player' = None ]_vars

\* C8 witness: the merge is about to replace a player that is set and is
\* another one.
C8_Witness ==
    /\ main = "take_new_player"
    /\ IsSome(player)
    /\ IsSome(new_player)
    /\ player # new_player

\* C9 (as claimed): a batch a successful refresh stored, the empty one
\* included, is the view once a merge has dealt with it.
C9_ViewIsStoredBatch ==
    [][ (unmerged /\ ~unmerged') => GetLeaderboard' = updating ]_vars

\* The entries published for task i.
PublishedOf(i) ==
    SelectSeq(events.create \o events.refresh \o events.score, LAMBDA r : r.id = i)

\* C10: no task ever has two outcome entries, each published entry went to
\* the writer of its task's kind, and every spawned task eventually has
\* exactly one entry published.
C10_EveryTaskOneOutcome ==
    /\ [](\A i \in 1..Len(tasks) :
            /\ Len(OutcomesOf(i)) <= 1
            /\ \A k \in {"create", "refresh", "score"} :
                  \A n \in 1..Len(events[k]) :
                      events[k][n].id = i => tasks[i].kind = k)
    /\ \A i \in 1..MaxTasks :
          [](i <= Len(tasks) => <>(Len(PublishedOf(i)) = 1))

\* C10 witness: the same operation was issued twice and both outcomes
\* are published.
C10_Witness ==
    /\ Len(events.refresh) = 2
    /\ events.refresh[1].id # events.refresh[2].id

\* C11: the call that spawns a score task, every step of that task and the
\* drain that publishes its outcome leave the view, the current player and
\* both slots as they were; the task's only write is its one SendScore
\* entry, which says what the server answered; a merge takes the view from
\* the refresh slot and the player from the create-player slot, never from
\* a score task.
C11_SendScoreFrame ==
    [][ /\ TasksOfKind("score")' # TasksOfKind("score") =>
              UNCHANGED << leaderboard, updating, results, new_player, player,
                           lock, main, events >>
        /\ \A i \in TasksOfKind("score") :
              /\ tasks'[i] # tasks[i] =>
                    /\ UNCHANGED << leaderboard, updating, new_player, player, events >>
                    /\ \/ results' = results
                       \/ results' = Append(results, Result("score", tasks'[i].ok, i))
              /\ tasks'[i].player = None /\ tasks'[i].scores = <<>>
              /\ tasks'[i].pc = "done" =>
                    OutcomesOf(i)' = << Result("score", tasks'[i].ok, i) >>
        /\ events'.score # events.score =>
              UNCHANGED << leaderboard, updating, new_player, player >>
        /\ leaderboard' # leaderboard => leaderboard' = updating
        /\ updating' # updating =>
              \/ updating' = <<>>
              \/ \E j \in TasksOfKind("refresh") : updating' = tasks[j].scores
        /\ new_player' # new_player =>
              \/ new_player' = None
              \/ \E j \in TasksOfKind("create") : new_player' = tasks[j].player
        /\ (player' # player /\ main # "idle") => player' = new_player
      ]_vars

\* C11 witness: a score was sent and accepted and its outcome published,
\* with the player set by hand and a view merged from a refresh.
C11_Witness ==
    /\ \E i \in TasksOfKind("score") :
          /\ tasks[i].pc = "done" /\ tasks[i].ok
          /\ events.score = << Result("score", TRUE, i) >>
    /\ leaderboard = Batch5
    /\ IsSome(player)
    /\ updating = <<>> /\ new_player = None

\* C12: a token issued for an account under a key pair K, verified against
\* the public key of K in a second before the date of its expiry check,
\* gets through with exactly that account as the subject, whatever order
\* the query answers in; so does every request that carried an issued
\* token to the validator before that date.
C12_IssuedTokenYieldsSubject ==
    /\ \A i \in IssuesOfLast :
          (Unwrap(last).at \div Resolution) < i.biscuit.checks[1] =>
              /\ Unwrap(last).reply = Ok("req")
              /\ Unwrap(last).extensions = Some(i.account)
    /\ \A i \in issued, K \in KeyPairs, order \in QueryOrders :
          LET biscuit == CreateBiscuit(i.account, K, i.at)
          IN (Now \div Resolution) < biscuit.checks[1] =>
                 Validator(ToBase64(biscuit), K, Now, order)
                     = [reply |-> Ok("req"), extensions |-> Some(i.account)]

\* C12 witness: a token issued a fraction into a second came back one
\* second later and was let through with its account.
C12_Witness ==
    \E i \in IssuesOfLast :
        /\ i.at % Resolution # 0
        /\ Unwrap(last).at > i.at
        /\ Unwrap(last).reply.ok
        /\ Unwrap(last).extensions = Some(i.account)

\* The issue records of the token the last request's token was derived
\* from by appending blocks.
OriginsOfLast ==
    {i \in issued : /\ IsSome(last)
                    /\ Unwrap(last).token.whole
                    /\ Unwrap(last).token.biscuit.blocks # <<>>
                    /\ [Unwrap(last).token.biscuit EXCEPT !.blocks = <<>>] = i.biscuit}

\* C14 (as claimed): a token derived from an issued one by appending blocks
\* gets through only at a time at which the issued token gets through, and
\* then with the account the token was issued for as the subject.
C14_AttenuationOnlyNarrows ==
    \A i \in OriginsOfLast :
        Unwrap(last).reply.ok =>
            /\ \A order \in QueryOrders :
                  Validator(ToBase64(i.biscuit), "root", Unwrap(last).at, order).reply.ok
            /\ Unwrap(last).extensions = Some(i.account)

\* The six fields a tag is computed from, of the n-th submission built.
SignFields(n) ==
    << signed[n].secret, signed[n].leaderboard_key, signed[n].input.player,
       signed[n].input.score, signed[n].input.meta, signed[n].input.timestamp >>

\* The fields in which two submissions differ.
Differing(a, b) == {f \in 1..6 : SignFields(a)[f] # SignFields(b)[f]}

\* The bytes under the MAC as the claim lists them: timestamp, leaderboard
\* key, player id, score, then meta.
ClaimedMacInput(n) ==
    ToLeBytes(signed[n].input.timestamp, 8) \o signed[n].leaderboard_key
        \o signed[n].input.player \o ToLeBytes(signed[n].input.score, 4)
        \o (IF IsSome(signed[n].input.meta) THEN Unwrap(signed[n].input.meta) ELSE <<>>)

\* C13 (as claimed): every tag is the MAC, under the secret key, of the
\* concatenation in that order; submissions equal in all six fields have
\* equal tags; submissions that differ in exactly one field have different
\* tags.
C13_OneFieldChangesTag ==
    \A a \in 1..Len(signed), b \in 1..Len(signed) :
        /\ signed[a].input.k = HexEncode(HmacFinalize(signed[a].secret, ClaimedMacInput(a)))
        /\ Differing(a, b) = {} => signed[a].input.k = signed[b].input.k
        /\ Cardinality(Differing(a, b)) = 1 => signed[a].input.k # signed[b].input.k

\* Task i has written what it was answered into its slot.
HasWrittenSlot(i) ==
    CASE tasks[i].kind = "create" -> tasks[i].pc = "done"
      [] tasks[i].kind = "refresh" -> tasks[i].pc \in {"push", "pushing", "done"}
      [] OTHER -> TRUE

\* C15 (as claimed): a Success entry of a create-player or refresh task is
\* in the queue or published only once that task has written its slot.
C15_SlotBeforeOutcome ==
    \A n \in 1..Len(Outcomes) :
        (Outcomes[n].ok /\ Outcomes[n].kind \in {"create", "refresh"}) =>
            HasWrittenSlot(Outcomes[n].id)

\* The entries of a queue that go to the writer of one kind, in queue order.
OfKind(rs, kind) == SelectSeq(rs, LAMBDA r : r.kind = kind)

\* C16: the drain of the outcome queue leaves it empty and adds to what
\* each writer was sent exactly the queued entries of its kind, each once,
\* in the order the tasks pushed them; nothing else publishes or removes
\* an entry.
C16_DrainPublishesInOrder ==
    [][ /\ (main = "drain_results" /\ main' # main) =>
              /\ results' = <<>>
              /\ \A k \in {"create", "refresh", "score"} :
                    events'[k] = events[k] \o OfKind(results, k)
        /\ ~(main = "drain_results" /\ main' # main) =>
              /\ events' = events
              /\ \/ results' = results
                 \/ \E r \in {Result(tasks[i].kind, tasks[i].ok, i) : i \in 1..Len(tasks)} :
                       results' = Append(results, r)
      ]_vars

\* C16 witness: the drain holds the queue with two entries of one kind in
\* it, the entry of the task spawned later first.
C16_Witness ==
    /\ main = "drain_results"
    /\ lock["results"] = MainThread
    /\ Len(results) = 2
    /\ results[1].kind = "refresh" /\ results[2].kind = "refresh"
    /\ results[1].id > results[2].id
    /\ results[1].ok /\ ~results[2].ok

\* The lock the main thread is about to take with write(), if any.
MainWants ==
    CASE main = "lock_updating" -> {"updating"}
      [] main = "lock_new_player" -> {"new_player"}
      [] main = "lock_results" -> {"results"}
      [] OTHER -> {}

\* C17 (as claimed): a system is never at a lock that a task holds: when a
\* task has the lock of a slot or of the queue, the system has left that
\* slot or queue alone instead of waiting for it.
C17_SyncNeverWaits == \A l \in MainWants : lock[l] \in {NoHolder, MainThread}

\* A step of task i, whatever its kind.
TaskStep(i) == CreatePlayerTask(i) \/ SendScoreTask(i) \/ RefreshLeaderboardTask(i)

\* Thread `who` is at the one statement for which it holds lock l.
HoldsFor(who, l) ==
    IF who = MainThread
      THEN \/ l = "updating" /\ main = "drain_updating"
           \/ l = "new_player" /\ main = "take_new_player"
           \/ l = "results" /\ main = "drain_results"
      ELSE /\ who \in 1..Len(tasks)
           /\ \/ l = "results" /\ tasks[who].pc = "pushing"
              \/ l = "updating" /\ tasks[who].kind = "refresh" /\ tasks[who].pc = "storing"
              \/ l = "new_player" /\ tasks[who].kind = "create" /\ tasks[who].pc = "storing"

\* C18: a task whose request is in flight holds no lock; whoever holds a
\* lock holds that one only and is at the single push, write or drain it
\* took it for, which it can always carry out; and a task or system that
\* cannot go on waits for a lock somebody else holds.
C18_LocksHeldForOneStatement ==
    /\ \A i \in 1..Len(tasks) :
          tasks[i].pc = "await" => \A l \in Locks : lock[l] # i
    /\ \A l \in Locks :
          lock[l] # NoHolder =>
              /\ HoldsFor(lock[l], l)
              /\ \A m \in Locks \ {l} : lock[m] # lock[l]
              /\ IF lock[l] = MainThread
                   THEN ENABLED (DoneRefreshingLeaderboard \/ SendEvents)
                   ELSE ENABLED TaskStep(lock[l])
    /\ \A i \in 1..Len(tasks) :
          (tasks[i].pc # "done" /\ ~ENABLED TaskStep(i)) =>
              \E l \in Locks : lock[l] \notin {NoHolder, i}
    /\ (main # "idle" /\ ~ENABLED (DoneRefreshingLeaderboard \/ SendEvents)) =>
          \E l \in MainWants : lock[l] \notin {NoHolder, MainThread}

\* C18 witness: two tasks each hold a lock for their statement while the
\* system waits for one of them.
C18_Witness ==
    /\ main = "lock_updating"
    /\ lock["updating"] \in 1..Len(tasks)
    /\ lock["results"] \in 1..Len(tasks)

\* The refresh tasks that were answered scores and have written them into
\* the slot.
StoredBy ==
    {j \in TasksOfKind("refresh") :
        tasks[j].ok /\ tasks[j].pc \in {"push", "pushing", "done"}}

\* C19 (as claimed): once a CreatePlayerEvent::Success is published,
\* get_player returns a player; once the RefreshLeaderboardEvent::Success
\* of a task is published, get_leaderboard is that task's batch or the
\* batch of a later refresh. The second half is stated for a task that is
\* the only one to have stored a batch: while its batch waits in the slot
\* for a merge, the view is that batch already.
C19_SuccessMeansVisible ==
    /\ (\E n \in 1..Len(events.create) : events.create[n].ok) => IsSome(GetPlayer)
    /\ \A n \in 1..Len(events.refresh) :
          (events.refresh[n].ok /\ StoredBy = {events.refresh[n].id} /\ unmerged) =>
              GetLeaderboard = updating

====
